---- MODULE Spec2Model ----
(***************************************************************************)
(* hasp-csv-formatter: the CSVToJSONConverter component of                 *)
(* src/pages/index.js (the second, current copy of the component, lines    *)
(* 855-1968).                                                              *)
(*                                                                         *)
(* A JavaScript string is a sequence of one-character strings, so that     *)
(* parsing, trimming, lower-casing, token substitution and the "-N"        *)
(* suffix are computed character by character as the code computes them.   *)
(* A JavaScript object is a function whose DOMAIN is its set of own keys.   *)
(***************************************************************************)
EXTENDS Integers, Sequences, FiniteSets, TLC

(***************************************************************************)
(* Bounds of the model.                                                    *)
(***************************************************************************)
\* most sections the list may hold (addSection is not offered beyond it)
MaxSections == 2
\* largest clock reading (Date.now(), in milliseconds since the page loaded)
MaxClock == 1
\* most header reads suspended at one time (a file is not offered beyond it)
MaxReads == 1
\* most handler runs in one session
MaxSteps == 5
\* longest line given to the line parser alone
MaxLineLen == 4

(***************************************************************************)
(* Strings.                                                                *)
(***************************************************************************)
\* the value undefined; no string of characters equals it
Undefined == <<"undefined">>
\* a function inherited from Object.prototype, read through a key an object
\* does not own
Inherited == <<"inherited">>

MinOf(S) == CHOOSE x \in S : \A y \in S : x <= y
MaxOf(S) == CHOOSE x \in S : \A y \in S : y <= x

\* the characters String.prototype.trim and the regex class \s remove
IsSpace(c) == c \in {" ", "\t", "\n", "\r", "\f"}

\* String.prototype.trim
Trim(s) ==
  LET keep == {i \in 1..Len(s) : ~IsSpace(s[i])}
  IN IF keep = {} THEN <<>> ELSE SubSeq(s, MinOf(keep), MaxOf(keep))

\* String.prototype.toLowerCase on ASCII text
LowerLetters ==
  <<"a", "b", "c", "d", "e", "f", "g", "h", "i", "j", "k", "l", "m",
    "n", "o", "p", "q", "r", "s", "t", "u", "v", "w", "x", "y", "z">>
UpperLetters ==
  <<"A", "B", "C", "D", "E", "F", "G", "H", "I", "J", "K", "L", "M",
    "N", "O", "P", "Q", "R", "S", "T", "U", "V", "W", "X", "Y", "Z">>

LowerChar(c) ==
  IF \E i \in 1..Len(UpperLetters) : UpperLetters[i] = c
  THEN LowerLetters[CHOOSE i \in 1..Len(UpperLetters) : UpperLetters[i] = c]
  ELSE c

ToLowerCase(s) == [i \in 1..Len(s) |-> LowerChar(s[i])]

\* String.prototype.startsWith / endsWith
StartsWith(s, p) == Len(s) >= Len(p) /\ SubSeq(s, 1, Len(p)) = p
EndsWith(s, p) == Len(s) >= Len(p) /\ SubSeq(s, Len(s) - Len(p) + 1, Len(s)) = p

\* String.prototype.slice(n): the string without its first n characters
SliceFrom(s, n) == SubSeq(s, n + 1, Len(s))

\* the first position >= from at which pat occurs in s, 0 if none
IndexOfFrom(s, pat, from) ==
  LET hits == {i \in from..(Len(s) - Len(pat) + 1) : SubSeq(s, i, i + Len(pat) - 1) = pat}
  IN IF hits = {} THEN 0 ELSE MinOf(hits)

\* s.split(pat).join(rep) for a non-empty pat: every occurrence, left to right
RECURSIVE SplitJoin(_, _, _)
SplitJoin(s, pat, rep) ==
  LET at == IndexOfFrom(s, pat, 1)
  IN IF at = 0 THEN s
     ELSE SubSeq(s, 1, at - 1) \o rep \o SplitJoin(SliceFrom(s, at + Len(pat) - 1), pat, rep)

\* s.replace(/\s+/g, rep)
RECURSIVE ReplaceSpaceRuns(_, _)
ReplaceSpaceRuns(s, rep) ==
  IF s = <<>> THEN <<>>
  ELSE IF IsSpace(Head(s))
       THEN LET rest == {i \in 1..Len(s) : ~IsSpace(s[i])}
            IN rep \o (IF rest = {} THEN <<>>
                       ELSE ReplaceSpaceRuns(SliceFrom(s, MinOf(rest) - 1), rep))
       ELSE <<Head(s)>> \o ReplaceSpaceRuns(Tail(s), rep)

\* text.replace(/\r\n/g, "\n")
RECURSIVE ReplaceCRLF(_)
ReplaceCRLF(s) ==
  IF Len(s) < 2 THEN s
  ELSE IF s[1] = "\r" /\ s[2] = "\n"
       THEN <<"\n">> \o ReplaceCRLF(SliceFrom(s, 2))
       ELSE <<s[1]>> \o ReplaceCRLF(Tail(s))

\* text.split("\n"): always at least one piece
RECURSIVE SplitLines(_)
SplitLines(s) ==
  LET at == IndexOfFrom(s, <<"\n">>, 1)
  IN IF at = 0 THEN <<s>>
     ELSE <<SubSeq(s, 1, at - 1)>> \o SplitLines(SliceFrom(s, at))

\* String(n) and template interpolation of a non-negative integer
DigitChar(d) == <<"0", "1", "2", "3", "4", "5", "6", "7", "8", "9">>[d + 1]

RECURSIVE Decimal(_)
Decimal(n) == IF n < 10 THEN <<DigitChar(n)>> ELSE Decimal(n \div 10) \o <<DigitChar(n % 10)>>

\* Number.prototype.toString(36)
Base36Char(d) ==
  IF d < 10 THEN DigitChar(d)
  ELSE <<"a", "b", "c", "d", "e", "f", "g", "h", "i", "j", "k", "l", "m",
         "n", "o", "p", "q", "r", "s", "t", "u", "v", "w", "x", "y", "z">>[d - 9]

RECURSIVE Base36(_)
Base36(n) == IF n < 36 THEN <<Base36Char(n)>> ELSE Base36(n \div 36) \o <<Base36Char(n % 36)>>

\* String.prototype.padStart(2, "0") of a decimal
Pad2(n) == IF n < 10 THEN <<"0">> \o Decimal(n) ELSE Decimal(n)

(***************************************************************************)
(* Line parser (parseCSVLine).                                             *)
(***************************************************************************)
\* the loop body at position i; st = [cur, inQuotes, result]
RECURSIVE ParseLoop(_, _, _)
ParseLoop(line, i, st) ==
  IF i > Len(line) THEN st
  ELSE LET ch == line[i]
           nextIsQuote == i + 1 <= Len(line) /\ line[i + 1] = "\""
       IN IF ch = "\"" /\ nextIsQuote
          THEN ParseLoop(line, i + 2, [st EXCEPT !.cur = @ \o <<"\"">>])
          ELSE IF ch = "\""
          THEN ParseLoop(line, i + 1, [st EXCEPT !.inQuotes = ~@])
          ELSE IF ch = "," /\ ~st.inQuotes
          THEN ParseLoop(line, i + 1, [st EXCEPT !.result = Append(@, st.cur), !.cur = <<>>])
          ELSE ParseLoop(line, i + 1, [st EXCEPT !.cur = @ \o <<ch>>])

parseCSVLine(line) ==
  LET st == ParseLoop(line, 1, [cur |-> <<>>, inQuotes |-> FALSE, result |-> <<>>])
      result == Append(st.result, st.cur)
  IN [i \in 1..Len(result) |-> Trim(result[i])]

\* l.trim().length > 0
NonBlank(l) == Len(Trim(l)) > 0

\* text.replace(/\r\n/g, "\n").split("\n")
RawLines(text) == SplitLines(ReplaceCRLF(text))

\* rawLines.filter((l) => l.trim().length > 0)
NonBlankLines(text) == SelectSeq(RawLines(text), NonBlank)

\* parseCSVLine(line).map((h, i) => h ? h : `column_${i + 1}`), lower-cased
ColumnPrefix == <<"c", "o", "l", "u", "m", "n", "_">>

HeadersOfLine(line) ==
  LET parsed == parseCSVLine(line)
  IN [i \in 1..Len(parsed) |->
        ToLowerCase(IF parsed[i] # <<>> THEN parsed[i] ELSE ColumnPrefix \o Decimal(i))]

(***************************************************************************)
(* JavaScript objects used as dictionaries.                                *)
(***************************************************************************)
\* the property names every object literal inherits from Object.prototype
ObjectPrototypeKeys ==
  { <<"c", "o", "n", "s", "t", "r", "u", "c", "t", "o", "r">>,
    <<"h", "a", "s", "O", "w", "n", "P", "r", "o", "p", "e", "r", "t", "y">>,
    <<"i", "s", "P", "r", "o", "t", "o", "t", "y", "p", "e", "O", "f">>,
    <<"p", "r", "o", "p", "e", "r", "t", "y", "I", "s", "E", "n", "u", "m", "e", "r", "a", "b", "l", "e">>,
    <<"t", "o", "L", "o", "c", "a", "l", "e", "S", "t", "r", "i", "n", "g">>,
    <<"t", "o", "S", "t", "r", "i", "n", "g">>,
    <<"v", "a", "l", "u", "e", "O", "f">>,
    <<"_", "_", "p", "r", "o", "t", "o", "_", "_">>,
    <<"_", "_", "d", "e", "f", "i", "n", "e", "G", "e", "t", "t", "e", "r", "_", "_">>,
    <<"_", "_", "d", "e", "f", "i", "n", "e", "S", "e", "t", "t", "e", "r", "_", "_">>,
    <<"_", "_", "l", "o", "o", "k", "u", "p", "G", "e", "t", "t", "e", "r", "_", "_">>,
    <<"_", "_", "l", "o", "o", "k", "u", "p", "S", "e", "t", "t", "e", "r", "_", "_">> }

\* obj["__proto__"] = v with v a string leaves the object as it was: the
\* inherited setter ignores a value that is neither an object nor null
sProto == <<"_", "_", "p", "r", "o", "t", "o", "_", "_">>

\* obj[key]: the own value, else an inherited function, else undefined
JsGet(obj, key) ==
  IF key \in DOMAIN obj THEN obj[key]
  ELSE IF key \in ObjectPrototypeKeys THEN Inherited
  ELSE Undefined

\* a ?? b
Nullish(a, b) == IF a = Undefined THEN b ELSE a

\* String(v) of a string or of an inherited function (its source text, which
\* is no field value of any input)
FunctionText == <<"f", "u", "n", "c", "t", "i", "o", "n">>
StringOf(v) == IF v = Inherited THEN FunctionText ELSE v

(***************************************************************************)
(* Title pattern resolver (formatTimestampForPattern, resolveToken,        *)
(* buildTitleFromPattern).                                                 *)
(***************************************************************************)
sTitle == <<"t", "i", "t", "l", "e">>
sContent == <<"c", "o", "n", "t", "e", "n", "t">>
sIndex == <<"i", "n", "d", "e", "x">>
sTimestamp == <<"t", "i", "m", "e", "s", "t", "a", "m", "p">>
sColumnColon == <<"c", "o", "l", "u", "m", "n", ":">>

\* new Date() at clock reading t (milliseconds): the page is loaded at
\* 2026-01-01 00:00:00.000 local time
DateOf(t) ==
  [year |-> 2026, month |-> 0, date |-> 1,
   hours |-> (t \div 3600000) % 24, minutes |-> (t \div 60000) % 60,
   seconds |-> (t \div 1000) % 60]

formatTimestampForPattern(d) ==
  Decimal(d.year) \o Pad2(d.month + 1) \o Pad2(d.date) \o Pad2(d.hours)
    \o Pad2(d.minutes) \o Pad2(d.seconds)

\* headersArray.find(pred), hits the positions whose element satisfies pred:
\* the first such element, else undefined
FindHeader(headersArray, hits) ==
  IF hits = {} THEN Undefined ELSE headersArray[MinOf(hits)]

\* found ? String(rowObject[found] ?? "") : ""
ValueOfFound(rowObject, found) ==
  IF found = Undefined \/ found = <<>> THEN <<>>
  ELSE StringOf(Nullish(JsGet(rowObject, found), <<>>))

resolveToken(token, rowObject, headersArray, rowIndex, now) ==
  LET t == Trim(token)
      tl == ToLowerCase(t)
  IN IF t = sTitle THEN Nullish(JsGet(rowObject, sTitle), <<>>)
     ELSE IF t = sIndex THEN Decimal(rowIndex)
     ELSE IF t = sTimestamp THEN formatTimestampForPattern(DateOf(now))
     ELSE IF StartsWith(tl, sColumnColon)
     THEN LET headerName == Trim(SliceFrom(t, Len(sColumnColon)))
              target == ToLowerCase(headerName)
              IsTarget == {i \in 1..Len(headersArray) :
                             ToLowerCase(headersArray[i]) = target}
          IN IF headerName = <<>> THEN <<>>
             ELSE ValueOfFound(rowObject, FindHeader(headersArray, IsTarget))
     ELSE IF StartsWith(tl, ColumnPrefix)
     THEN LET headerName == Trim(SliceFrom(t, Len(ColumnPrefix)))
              normalizedQuery == ReplaceSpaceRuns(ToLowerCase(headerName), <<"_">>)
              IsMatch == {i \in 1..Len(headersArray) :
                            ReplaceSpaceRuns(ToLowerCase(headersArray[i]), <<"_">>)
                              = normalizedQuery}
          IN IF headerName = <<>> THEN <<>>
             ELSE ValueOfFound(rowObject, FindHeader(headersArray, IsMatch))
     ELSE LET IsDirect == {i \in 1..Len(headersArray) :
                             ToLowerCase(headersArray[i]) = tl}
              match == FindHeader(headersArray, IsDirect)
          IN IF match = Undefined \/ match = <<>> THEN <<>>
             ELSE StringOf(Nullish(JsGet(rowObject, match), <<>>))

\* pat.match(/\{([^\}]+)\}/g): the tokens, braces included, left to right
RECURSIVE MatchTokens(_)
MatchTokens(pat) ==
  LET open == IndexOfFrom(pat, <<"{">>, 1)
      close == IF open = 0 THEN 0 ELSE IndexOfFrom(pat, <<"}">>, open + 1)
  IN IF open = 0 \/ close = 0 THEN <<>>
     ELSE IF close = open + 1 THEN MatchTokens(SliceFrom(pat, open))
     ELSE <<SubSeq(pat, open, close)>> \o MatchTokens(SliceFrom(pat, close))

\* tokens.forEach: each token replaced, in turn, everywhere in the result so far
RECURSIVE ReplaceTokens(_, _, _, _, _, _)
ReplaceTokens(result, tokens, rowObject, headersArray, rowIndex, now) ==
  IF tokens = <<>> THEN result
  ELSE LET raw == Head(tokens)
           token == SubSeq(raw, 2, Len(raw) - 1)
           val == resolveToken(token, rowObject, headersArray, rowIndex, now)
           safeVal == Trim(StringOf(Nullish(val, <<>>)))
       IN ReplaceTokens(SplitJoin(result, raw, safeVal), Tail(tokens),
                        rowObject, headersArray, rowIndex, now)

\* a resolver that takes a blank pattern for a literal one
buildTitleBlankLiteral(pattern, rowObject, headersArray, rowIndex, now) ==
  LET tokens == MatchTokens(pattern)
  IN IF tokens = <<>> THEN pattern
     ELSE ReplaceTokens(pattern, tokens, rowObject, headersArray, rowIndex, now)

\* if (!pattern || !String(pattern).trim()) return rowObject.title ?? "";
\* if (!tokens) return pat; else the tokens are replaced
buildTitleFromPattern(pattern, rowObject, headersArray, rowIndex, now) ==
  IF Trim(pattern) = <<>> THEN Nullish(JsGet(rowObject, sTitle), <<>>)
  ELSE LET tokens == MatchTokens(pattern)
       IN IF tokens = <<>> THEN pattern
          ELSE ReplaceTokens(pattern, tokens, rowObject, headersArray, rowIndex, now)


(***************************************************************************)
(* Record builder (the body of processCSV between the file read and the    *)
(* state updates).                                                         *)
(***************************************************************************)
sSectionDefault == <<"s", "e", "c", "t", "i", "o", "n", "_", "d", "e", "f", "a", "u", "l", "t">>

\* while (values.length < headers.length) values.push("");
\* if (values.length > headers.length) values.length = headers.length;
PadOrTruncate(values, width) ==
  [i \in 1..width |-> IF i <= Len(values) THEN values[i] ELSE <<>>]

\* headers.forEach((header, index) => { row[header] = values[index] ?? "" })
\* a header that occurs twice keeps the value of its last column
RowObject(headers, values) ==
  [h \in {headers[i] : i \in 1..Len(headers)} \ {sProto} |->
     values[MaxOf({i \in 1..Len(headers) : headers[i] = h})]]

\* sections[0]?.id ?? "section_default"
DefaultSectionId(secs) == IF secs = <<>> THEN sSectionDefault ELSE secs[1].id

\* sections.find((s) => s.id === targetSectionId) || sections[0], as a
\* position in the list; 0 stands for undefined
TargetSection(secs, targetSectionId) ==
  LET hits == {i \in 1..Len(secs) : secs[i].id = targetSectionId}
  IN IF hits # {} THEN MinOf(hits)
     ELSE IF secs # <<>> THEN 1
     ELSE 0

\* the position of the section a header's value is stored under
SectionOfHeader(headerLower, secs, colMap) ==
  TargetSection(secs, Nullish(JsGet(colMap, headerLower), DefaultSectionId(secs)))

\* a routing that stores the title and content columns like any other
SectionsDataAll(headers, row, secs, colMap) ==
  LET routed == {headers[i] : i \in 1..Len(headers)}
      NameOf(h) == secs[SectionOfHeader(h, secs, colMap)].name
  IN IF \E h \in routed : SectionOfHeader(h, secs, colMap) = 0
     THEN [threw |-> TRUE, data |-> <<>>]
     ELSE [threw |-> FALSE,
           data |-> [name \in {secs[i].name : i \in 1..Len(secs)} |->
                       [h \in {x \in routed \ {sProto} : NameOf(x) = name} |->
                          Nullish(JsGet(row, h), <<>>)]]]

\* sectionsData after both forEach loops; threw: targetSection.name was read
\* from undefined (a TypeError); the assignment to the key "__proto__" (of
\* the value row["__proto__"], the inherited prototype) stores nothing
SectionsData(headers, row, secs, colMap) ==
  LET routed == {headers[i] : i \in 1..Len(headers)} \ {sTitle, sContent}
      NameOf(h) == secs[SectionOfHeader(h, secs, colMap)].name
  IN IF \E h \in routed : SectionOfHeader(h, secs, colMap) = 0
     THEN [threw |-> TRUE, data |-> <<>>]
     ELSE [threw |-> FALSE,
           data |-> [name \in {secs[i].name : i \in 1..Len(secs)} |->
                       [h \in {x \in routed \ {sProto} : NameOf(x) = name} |->
                          Nullish(JsGet(row, h), <<>>)]]]

\* const titleCounts = {}
NewTitleCounts == [t \in {} |-> 0]

\* a count is a number, or the text that "+= 1" makes of an inherited function
NotANumber == [num |-> FALSE, n |-> 0]
Count(n) == [num |-> TRUE, n |-> n]

\* if (!titleCounts[normalized]) titleCounts[normalized] = 1;
\* else titleCounts[normalized] += 1;
BumpTitleCount(titleCounts, normalized) ==
  LET new == IF normalized \in DOMAIN titleCounts
             THEN IF titleCounts[normalized].num
                  THEN Count(titleCounts[normalized].n + 1)
                  ELSE NotANumber
             ELSE IF normalized \in ObjectPrototypeKeys THEN NotANumber
             ELSE Count(1)
  IN [t \in DOMAIN titleCounts \cup {normalized} |->
        IF t = normalized THEN new ELSE titleCounts[t]]

\* finalTitle: `${normalized}-${titleCounts[normalized] - 1}` when the count > 1
FinalTitle(titleCounts, normalized) ==
  LET c == titleCounts[normalized]
  IN IF c.num /\ c.n > 1 THEN normalized \o <<"-">> \o Decimal(c.n - 1) ELSE normalized

\* a pass that gives the pattern the line's position, the header line counted
GeneratedTitleLineNo(lines, i, headers, pattern, now) ==
  buildTitleFromPattern(
    pattern, RowObject(headers, PadOrTruncate(parseCSVLine(lines[i]), Len(headers))),
    headers, i, now)

\* generatedBaseTitle || "" of the row on line i (the header is line 1): the
\* pattern is given the code's line index, which counts from 0
GeneratedTitle(lines, i, headers, pattern, now) ==
  buildTitleFromPattern(
    pattern, RowObject(headers, PadOrTruncate(parseCSVLine(lines[i]), Len(headers))),
    headers, i - 1, now)

\* the for loop over lines[1..]: acc = [threw, transformed, titleCounts]
RECURSIVE RowLoop(_, _, _, _, _, _, _, _)
RowLoop(lines, i, headers, secs, colMap, pattern, now, acc) ==
  IF i > Len(lines) THEN acc
  ELSE LET values == PadOrTruncate(parseCSVLine(lines[i]), Len(headers))
           row == RowObject(headers, values)
           sectionsData == SectionsData(headers, row, secs, colMap)
           normalized == GeneratedTitle(lines, i, headers, pattern, now)
           counts == BumpTitleCount(acc.titleCounts, normalized)
           jsonEntry == [title |-> FinalTitle(counts, normalized),
                         content |-> Nullish(JsGet(row, sContent), <<>>),
                         data |-> sectionsData.data]
       IN IF sectionsData.threw THEN [acc EXCEPT !.threw = TRUE]
          ELSE RowLoop(lines, i + 1, headers, secs, colMap, pattern, now,
                       [threw |-> FALSE,
                        transformed |-> Append(acc.transformed, jsonEntry),
                        titleCounts |-> counts])

\* what a pass computes from the text it read and the state it captured:
\* kind "empty" (no non-blank line), "threw", or "ok" with headers and records
ConvertText(text, secs, colMap, pattern, now) ==
  LET lines == NonBlankLines(text)
      headers == HeadersOfLine(lines[1])
      out == RowLoop(lines, 2, headers, secs, colMap, pattern, now,
                     [threw |-> FALSE, transformed |-> <<>>,
                      titleCounts |-> NewTitleCounts])
  IN IF Len(lines) < 1 THEN [kind |-> "empty", headers |-> <<>>, transformed |-> <<>>]
     ELSE IF out.threw THEN [kind |-> "threw", headers |-> <<>>, transformed |-> <<>>]
     ELSE [kind |-> "ok", headers |-> headers, transformed |-> out.transformed]

(***************************************************************************)
(* Inputs.                                                                 *)
(***************************************************************************)
\* the File objects the user can pick, by handle: name, MIME type and text
CsvFile(name, text) == [name |-> name, type |-> "text/csv", text |-> text]

\* title column only; the third title is the second with its suffix
FileTitles == CsvFile(<<"t", ".", "c", "s", "v">>, <<"t", "i", "t", "l", "e", "\n", "a", "\n", "a", "\n", "a", "-", "1">>)
\* a routed column and a title column whose value is an inherited key; CRLF
FileNames == CsvFile(<<"n", ".", "c", "s", "v">>, <<"n", ",", "T", "i", "t", "l", "e", "\r", "\n", "x", ",", "v", "a", "l", "u", "e", "O", "f", "\r", "\n", "\r", "\n", "y", ",", "v", "a", "l", "u", "e", "O", "f">>)
\* no title column, so every generated title is empty under "{title}"; a
\* routed column, a content column and a column named "__proto__"; the first
\* row has a field too many, the second has two too few
FileNoTitle == [name |-> <<"e", ".", "C", "S", "V">>, type |-> "", text |-> <<"n", ",", "C", "o", "n", "t", "e", "n", "t", ",">> \o sProto \o <<"\n", "x", ",", "c", ",", "p", ",", "z", "\n", "y">>]
\* no non-blank line
FileBlank == CsvFile(<<"b", ".", "c", "s", "v">>, <<" ", "\n">>)
\* neither type text/csv nor a name ending .csv
FileText == [name |-> <<"a", ".", "t", "x", "t">>, type |-> "text/plain", text |-> <<"a">>]

Files ==
  [h \in {"titles", "names", "notitle", "blank", "text"} |->
     CASE h = "titles" -> FileTitles
       [] h = "names" -> FileNames
       [] h = "notitle" -> FileNoTitle
       [] h = "blank" -> FileBlank
       [] h = "text" -> FileText]

FilePool == DOMAIN Files

\* the files offered to the session
SessionFiles == {"names", "blank", "text"}

\* file === null
NoFile == "null"

\* names typed into the new-section box and into a section's name box
NamePool == {<<"a">>, <<" ">>}
RenamePool == {<<"a">>}

\* title patterns typed into the pattern box
sPatTitle == <<"{", "t", "i", "t", "l", "e", "}">>
sPatIndex == <<"{", "i", "n", "d", "e", "x", "}">>
PatternPool == {sPatTitle, sPatTitle \o sPatIndex}

(***************************************************************************)
(* State.                                                                  *)
(***************************************************************************)
VARIABLES
  file,             \* useState(null): the handle of the selected File, or NoFile
  detectedHeaders,  \* useState([]): lower-cased headers
  jsonData,         \* useState([]): the record set
  status,           \* useState({type: "", message: ""})
  isProcessing,     \* useState(false): the busy flag
  modalContent,     \* useState(null): the blocking modal payload
  sections,         \* useState([{id: "main", ...}]): the section list
  columnMap,        \* useState({}): headerLower -> section id
  titlePattern,     \* useState("{title}")
  clock,            \* the last reading of Date.now()
  passes,           \* processCSV calls suspended at await file.text()
  extractions,      \* extractHeadersFromFile calls suspended at await chunk.text()
  artifact,         \* the last file handed to the browser for download, and
                    \* the number of files handed over so far
  source,           \* the captured values of the pass that produced jsonData
  last,             \* the handler that ran last, how it ended, and its argument
  steps             \* the number of handler runs so far

vars == <<file, detectedHeaders, jsonData, status, isProcessing, modalContent,
          sections, columnMap, titlePattern, clock, passes, extractions,
          artifact, source, last, steps>>

sMain == <<"m", "a", "i", "n">>
MainSection == [id |-> sMain, name |-> sMain, removable |-> TRUE]

NoStatus == [type |-> "", message |-> ""]
NoModal == [title |-> "", content |-> ""]
NoArtifact == [kind |-> "none", records |-> <<>>, rows |-> <<>>, n |-> 0]
NoSource == [file |-> NoFile]
EmptyMap == [h \in {} |-> <<>>]

Init ==
  /\ file = NoFile
  /\ detectedHeaders = <<>>
  /\ jsonData = <<>>
  /\ status = NoStatus
  /\ isProcessing = FALSE
  /\ modalContent = NoModal
  /\ sections = <<MainSection>>
  /\ columnMap = EmptyMap
  /\ titlePattern = sPatTitle
  /\ clock = 0
  /\ passes = <<>>
  /\ extractions = <<>>
  /\ artifact = NoArtifact
  /\ source = NoSource
  /\ last = [op |-> "init", outcome |-> "", arg |-> <<>>]
  /\ steps = 0

\* a handler run is counted and recorded
Ran(op, outcome, arg) ==
  /\ steps < MaxSteps
  /\ steps' = steps + 1
  /\ last' = [op |-> op, outcome |-> outcome, arg |-> arg]

\* the sequence without its k-th element
RemoveAt(q, k) == SubSeq(q, 1, k - 1) \o SubSeq(q, k + 1, Len(q))

SectionIds(secs) == {secs[i].id : i \in 1..Len(secs)}

(***************************************************************************)
(* Session handlers.                                                       *)
(***************************************************************************)
reset ==
  /\ file' = NoFile
  /\ detectedHeaders' = <<>>
  /\ jsonData' = <<>>
  /\ status' = NoStatus
  /\ sections' = <<MainSection>>
  /\ columnMap' = EmptyMap
  /\ titlePattern' = sPatTitle
  /\ source' = NoSource
  /\ Ran("reset", "", <<>>)
  /\ UNCHANGED <<isProcessing, modalContent, clock, passes, extractions, artifact>>

sDotCsv == <<".", "c", "s", "v">>

\* uploadedFile.type === "text/csv" || uploadedFile.name.toLowerCase().endsWith(".csv")
IsCSV(uploadedFile) ==
  uploadedFile.type = "text/csv" \/ EndsWith(ToLowerCase(uploadedFile.name), sDotCsv)

\* handleFileSelection up to its await: a CSV file is stored and its header
\* extraction starts; any other file only sets the error status
handleFileSelection(uploadedFile) ==
  \/ /\ ~IsCSV(Files[uploadedFile])
     /\ status' = [type |-> "error", message |-> "Please upload a valid CSV file."]
     /\ Ran("handleFileSelection", "rejected", <<>>)
     /\ UNCHANGED <<file, detectedHeaders, jsonData, isProcessing, modalContent,
                    sections, columnMap, titlePattern, clock, passes, extractions,
                    artifact, source>>
  \/ /\ IsCSV(Files[uploadedFile])
     /\ Len(extractions) < MaxReads
     /\ file' = uploadedFile
     /\ status' = NoStatus
     /\ extractions' = Append(extractions, uploadedFile)
     /\ Ran("handleFileSelection", "accepted", <<>>)
     /\ UNCHANGED <<detectedHeaders, jsonData, isProcessing, modalContent, sections,
                    columnMap, titlePattern, clock, passes, artifact, source>>

\* uploadedFile.slice(0, 16 * 1024)
HeaderChunkSize == 16384
HeaderChunk(text) ==
  SubSeq(text, 1, IF Len(text) < HeaderChunkSize THEN Len(text) ELSE HeaderChunkSize)

\* rawLines.find((l) => l.trim().length > 0) || ""
FirstLine(text) ==
  LET lines == NonBlankLines(text) IN IF lines = <<>> THEN <<>> ELSE lines[1]

\* a header extraction that leaves an emptied section list empty
EnsureSectionNone(prev) == prev

\* setSections((prev) => (!prev || prev.length === 0) ? [main] : prev)
EnsureSection(prev) == IF prev = <<>> THEN <<MainSection>> ELSE prev

\* extractHeadersFromFile after its await, for the k-th suspended call: the
\* read rejects (catch), finds no header line, or yields the headers
extractHeadersFromFile(k) ==
  /\ k \in 1..Len(extractions)
  /\ extractions' = RemoveAt(extractions, k)
  /\ LET firstLine == FirstLine(HeaderChunk(Files[extractions[k]].text))
     IN \/ /\ detectedHeaders' = <<>>
           /\ Ran("extractHeadersFromFile", "rejected", <<>>)
           /\ UNCHANGED <<columnMap, sections>>
        \/ /\ firstLine = <<>>
           /\ detectedHeaders' = <<>>
           /\ Ran("extractHeadersFromFile", "empty", <<>>)
           /\ UNCHANGED <<columnMap, sections>>
        \/ /\ firstLine # <<>>
           /\ detectedHeaders' = HeadersOfLine(firstLine)
           /\ columnMap' = EmptyMap
           /\ sections' = EnsureSection(sections)
           /\ Ran("extractHeadersFromFile", "ok", <<>>)
  /\ UNCHANGED <<file, jsonData, status, isProcessing, modalContent, titlePattern,
                 clock, passes, artifact, source>>

(***************************************************************************)
(* Section registry handlers.                                              *)
(***************************************************************************)
\* normalized.toLowerCase().replace(/\s+/g, "_") + "_" + Date.now().toString(36)
NewSectionId(normalized, now) ==
  ReplaceSpaceRuns(ToLowerCase(normalized), <<"_">>) \o <<"_">> \o Base36(now)

\* addSection(name) at clock reading now
addSection(name, now) ==
  /\ now >= clock
  /\ clock' = now
  /\ \/ /\ Trim(name) = <<>>
        /\ Ran("addSection", "ignored", <<>>)
        /\ UNCHANGED sections
     \/ /\ Trim(name) # <<>>
        /\ Len(sections) < MaxSections
        /\ sections' = Append(sections, [id |-> NewSectionId(Trim(name), now),
                                         name |-> Trim(name), removable |-> TRUE])
        /\ Ran("addSection", "added", <<>>)
  /\ UNCHANGED <<file, detectedHeaders, jsonData, status, isProcessing, modalContent,
                 columnMap, titlePattern, passes, extractions, artifact, source>>

\* a rename that gives every section the new name
RenamedAll(secs, id, newName) ==
  [i \in 1..Len(secs) |-> [secs[i] EXCEPT !.name = newName]]

\* prev.map((s) => (s.id === id ? { ...s, name: newName } : s))
Renamed(secs, id, newName) ==
  [i \in 1..Len(secs) |-> IF secs[i].id = id THEN [secs[i] EXCEPT !.name = newName]
                          ELSE secs[i]]

renameSection(id, newName) ==
  /\ sections' = Renamed(sections, id, newName)
  /\ Ran("renameSection", "", [id |-> id, newName |-> newName])
  /\ UNCHANGED <<file, detectedHeaders, jsonData, status, isProcessing, modalContent,
                 columnMap, titlePattern, clock, passes, extractions, artifact, source>>

\* prev.filter((s) => s.id !== id)
WithoutSection(secs, id) ==
  LET Keeps(sec) == sec.id # id IN SelectSeq(secs, Keeps)

\* nextSections?.[0]?.id
FallbackId(nextSections) ==
  IF nextSections = <<>> THEN Undefined ELSE nextSections[1].id

\* a removal that leaves the column map as it was
ReassignedNot(prevMap, id, fallbackId) == prevMap

\* the setColumnMap updater inside removeSection
Reassigned(prevMap, id, fallbackId) ==
  [col \in DOMAIN prevMap |-> IF prevMap[col] = id THEN fallbackId ELSE prevMap[col]]

\* the section row's remove button is rendered for a removable section
removeSection(id) ==
  /\ \E i \in 1..Len(sections) : sections[i].id = id /\ sections[i].removable
  /\ sections' = WithoutSection(sections, id)
  /\ columnMap' = Reassigned(columnMap, id, FallbackId(WithoutSection(sections, id)))
  /\ Ran("removeSection",
         IF \E col \in DOMAIN columnMap : columnMap[col] = id THEN "reassigned"
         ELSE "removed", id)
  /\ UNCHANGED <<file, detectedHeaders, jsonData, status, isProcessing, modalContent,
                 titlePattern, clock, passes, extractions, artifact, source>>

\* the setColumnMap updater of setColumnAssignment
Assigned(prev, key, sectionId) ==
  IF sectionId = <<>> THEN [col \in DOMAIN prev \ {key} |-> prev[col]]
  ELSE IF key = sProto THEN prev
  ELSE [col \in DOMAIN prev \cup {key} |-> IF col = key THEN sectionId ELSE prev[col]]

\* the assignment select is rendered when file && detectedHeaders.length > 0,
\* one per detected header, its options the current sections
setColumnAssignment(header, sectionId) ==
  /\ file # NoFile
  /\ \E i \in 1..Len(detectedHeaders) : detectedHeaders[i] = header
  /\ sectionId \in SectionIds(sections)
  /\ columnMap' = Assigned(columnMap, ToLowerCase(header), sectionId)
  /\ Ran("setColumnAssignment", "", <<>>)
  /\ UNCHANGED <<file, detectedHeaders, jsonData, status, isProcessing, modalContent,
                 sections, titlePattern, clock, passes, extractions, artifact, source>>

\* the pattern input's onChange
setTitlePattern(pattern) ==
  /\ titlePattern' = pattern
  /\ Ran("setTitlePattern", "", <<>>)
  /\ UNCHANGED <<file, detectedHeaders, jsonData, status, isProcessing, modalContent,
                 sections, columnMap, clock, passes, extractions, artifact, source>>

\* the token buttons: setTitlePattern((p) => `${p}${token}`)
appendTokenToPattern(token) ==
  /\ titlePattern \o token \in PatternPool
  /\ titlePattern' = titlePattern \o token
  /\ Ran("appendTokenToPattern", "", <<>>)
  /\ UNCHANGED <<file, detectedHeaders, jsonData, status, isProcessing, modalContent,
                 sections, columnMap, clock, passes, extractions, artifact, source>>

(***************************************************************************)
(* Convert (processCSV).                                                   *)
(***************************************************************************)
\* the values the processCSV closure of the current render holds
Captured ==
  [file |-> file, sections |-> sections, columnMap |-> columnMap,
   titlePattern |-> titlePattern]

\* a Convert button that stays enabled during a pass
ConvertOfferedAlways == TRUE

\* the Convert button: disabled={!file || isProcessing}; processCSV checks the
\* file itself, only the button checks the busy flag
ConvertOffered == ~isProcessing

\* processCSV up to its await
processCSV ==
  /\ ConvertOffered
  /\ \/ /\ file = NoFile
        /\ status' = [type |-> "error", message |-> "Please select a file first."]
        /\ Ran("processCSV", "no file", <<>>)
        /\ UNCHANGED <<isProcessing, passes>>
     \/ /\ file # NoFile
        /\ isProcessing' = TRUE
        /\ status' = NoStatus
        /\ passes' = Append(passes, Captured)
        /\ Ran("processCSV", "reading", <<>>)
  /\ UNCHANGED <<file, detectedHeaders, jsonData, modalContent, sections, columnMap,
                 titlePattern, clock, extractions, artifact, source>>

\* the clock is read (new Date()) only to resolve a {timestamp} token
ReadsClock(pattern) ==
  \E i \in 1..Len(MatchTokens(pattern)) :
    LET raw == MatchTokens(pattern)[i]
    IN Trim(SubSeq(raw, 2, Len(raw) - 1)) = sTimestamp

\* `Converted ${n} row${n !== 1 ? "s" : ""}.`
ConvertedMessage(n) ==
  "Converted " \o ToString(n) \o (IF n # 1 THEN " rows." ELSE " row.")

\* a failure path that also clears the record set
ConvertFailedClears(k, outcome) ==
  /\ status' = [type |-> "error", message |-> "Error processing CSV file."]
  /\ isProcessing' = FALSE
  /\ passes' = RemoveAt(passes, k)
  /\ jsonData' = <<>>
  /\ Ran("processCSVResumed", outcome, passes[k])
  /\ UNCHANGED <<detectedHeaders, source, sections, columnMap, titlePattern>>

\* the catch block and finally
ConvertFailed(k, outcome) ==
  /\ status' = [type |-> "error", message |-> "Error processing CSV file."]
  /\ isProcessing' = FALSE
  /\ passes' = RemoveAt(passes, k)
  /\ Ran("processCSVResumed", outcome, passes[k])
  /\ UNCHANGED <<detectedHeaders, jsonData, source, sections, columnMap, titlePattern>>

\* an empty-file path that returns with the busy flag still set
ConvertEmptyStaysBusy(k) ==
  /\ status' = [type |-> "error", message |-> "CSV file is empty or malformed."]
  /\ isProcessing' = isProcessing
  /\ passes' = RemoveAt(passes, k)
  /\ Ran("processCSVResumed", "empty", passes[k])
  /\ UNCHANGED <<detectedHeaders, jsonData, source, sections, columnMap, titlePattern>>

\* if (lines.length < 1): the status, the busy flag, return (and finally)
ConvertEmpty(k) ==
  /\ status' = [type |-> "error", message |-> "CSV file is empty or malformed."]
  /\ isProcessing' = FALSE
  /\ passes' = RemoveAt(passes, k)
  /\ Ran("processCSVResumed", "empty", passes[k])
  /\ UNCHANGED <<detectedHeaders, jsonData, source, sections, columnMap, titlePattern>>

\* a success path that appends the new records to the record set
ConvertSucceededAppends(k, out) ==
  /\ detectedHeaders' = out.headers
  /\ jsonData' = jsonData \o out.transformed
  /\ source' = passes[k]
  /\ status' = [type |-> "success", message |-> ConvertedMessage(Len(out.transformed))]
  /\ isProcessing' = FALSE
  /\ passes' = RemoveAt(passes, k)
  /\ Ran("processCSVResumed", IF source = passes[k] THEN "ok again" ELSE "ok", passes[k])
  /\ UNCHANGED <<sections, columnMap, titlePattern>>

\* a success path that also clears the column map
ConvertSucceededResetsMap(k, out) ==
  /\ detectedHeaders' = out.headers
  /\ jsonData' = out.transformed
  /\ source' = passes[k]
  /\ status' = [type |-> "success", message |-> ConvertedMessage(Len(out.transformed))]
  /\ isProcessing' = FALSE
  /\ passes' = RemoveAt(passes, k)
  /\ columnMap' = EmptyMap
  /\ Ran("processCSVResumed", IF source = passes[k] THEN "ok again" ELSE "ok", passes[k])
  /\ UNCHANGED <<sections, titlePattern>>

\* setDetectedHeaders(headers), setJsonData(transformed), the success status,
\* and finally
ConvertSucceeded(k, out) ==
  /\ detectedHeaders' = out.headers
  /\ jsonData' = out.transformed
  /\ source' = passes[k]
  /\ status' = [type |-> "success", message |-> ConvertedMessage(Len(out.transformed))]
  /\ isProcessing' = FALSE
  /\ passes' = RemoveAt(passes, k)
  /\ Ran("processCSVResumed", IF source = passes[k] THEN "ok again" ELSE "ok", passes[k])
  /\ UNCHANGED <<sections, columnMap, titlePattern>>

\* a pass that reads the file, the section list, the column map and the
\* pattern of the render current when its file read settles
processCSVResumedLive(k, now) ==
  /\ k \in 1..Len(passes)
  /\ now >= clock
  /\ now = clock \/ ReadsClock(titlePattern)
  /\ clock' = now
  /\ LET out == ConvertText(Files[file].text, sections, columnMap, titlePattern, now)
     IN \/ ConvertFailed(k, "read rejected")
        \/ file # NoFile /\ out.kind = "empty" /\ ConvertEmpty(k)
        \/ file # NoFile /\ out.kind = "threw" /\ ConvertFailed(k, "threw")
        \/ file # NoFile /\ out.kind = "ok" /\ ConvertSucceeded(k, out)
  /\ UNCHANGED <<file, modalContent, extractions, artifact>>

\* processCSV after its await, for the k-th suspended pass, at clock reading
\* now: the read rejects, or the text is converted with the captured values
processCSVResumed(k, now) ==
  /\ k \in 1..Len(passes)
  /\ now >= clock
  /\ now = clock \/ ReadsClock(passes[k].titlePattern)
  /\ clock' = now
  /\ LET pass == passes[k]
         out == ConvertText(Files[pass.file].text, pass.sections, pass.columnMap,
                            pass.titlePattern, now)
     IN \/ ConvertFailed(k, "read rejected")
        \/ out.kind = "empty" /\ ConvertEmpty(k)
        \/ out.kind = "threw" /\ ConvertFailed(k, "threw")
        \/ out.kind = "ok" /\ ConvertSucceeded(k, out)
  /\ UNCHANGED <<file, modalContent, extractions, artifact>>

(***************************************************************************)
(* Exporters.                                                              *)
(***************************************************************************)
\* an export gate that asks for records only
canExportRecordsOnly == Len(jsonData) > 0

\* jsonData.length > 0 && sections.length > 0
canExport == Len(jsonData) > 0 /\ Len(sections) > 0

showExportBlockedModal ==
  /\ modalContent' =
       [title |-> "Export Error",
        content |-> "Cannot export because no sections are defined. Please add at least one section before exporting."]
  /\ status' = [type |-> "error", message |-> "No sections defined."]

\* the regex class \w
IsWordChar(c) ==
  \/ \E i \in 1..Len(LowerLetters) : c = LowerLetters[i] \/ c = UpperLetters[i]
  \/ \E d \in 0..9 : c = DigitChar(d)
  \/ c = "_"

\* String(s ?? "").toLowerCase().replace(/[^\w\s-]/g, "").trim().replace(/\s+/g, "-")
slugify(s) ==
  LET Kept(c) == IsWordChar(c) \/ IsSpace(c) \/ c = "-"
  IN ReplaceSpaceRuns(Trim(SelectSeq(ToLowerCase(s), Kept)), <<"-">>)

\* the flat row of a record: the keys of every sub-object of its data (each
\* key lies in one sub-object only), then title and content from the record
reconstructRowFromItem(item) ==
  LET keys == UNION {DOMAIN item.data[name] : name \in DOMAIN item.data}
      Holder(k) == CHOOSE name \in DOMAIN item.data : k \in DOMAIN item.data[name]
  IN [k \in keys \cup {sTitle, sContent} |->
        IF k = sTitle THEN item.title
        ELSE IF k = sContent THEN item.content
        ELSE item.data[Holder(k)][k]]

\* a route that never falls back on the stored title
routeBaseOfPattern(item, idx, pattern, headersArray, now) ==
  buildTitleFromPattern(pattern, reconstructRowFromItem(item), headersArray,
                        idx + 1, now)

\* routeBase of the record at position idx (from 0): the pattern re-applied
\* to the flat row with row index idx + 1, or item.title when that is blank
routeBase(item, idx, pattern, headersArray, now) ==
  LET routeFromPattern ==
        buildTitleFromPattern(pattern, reconstructRowFromItem(item), headersArray,
                              idx + 1, now)
  IN IF Len(Trim(routeFromPattern)) > 0 THEN routeFromPattern ELSE item.title

\* the columns of an exported row that come from the record: content, title,
\* route_url (`/${item.content}/${routeTitle}`) and data
ExportedRow(item, idx, pattern, headersArray, now) ==
  [content |-> item.content,
   title |-> item.title,
   route_url |-> <<"/">> \o item.content \o <<"/">>
                   \o slugify(routeBase(item, idx, pattern, headersArray, now)),
   data |-> item.data]

\* jsonData.forEach((item, idx) => csvRows.push(...))
CsvRows(records, pattern, headersArray, now) ==
  [k \in 1..Len(records) |-> ExportedRow(records[k], k - 1, pattern, headersArray, now)]

\* a JSON export that looks at the record set only (its second check,
\* jsonData.length === 0, in place of canExport())
downloadJSONRecordsOnly ==
  /\ \/ /\ Len(jsonData) = 0
        /\ status' = [type |-> "error", message |-> "No data to download."]
        /\ Ran("downloadJSON", "blocked", <<>>)
        /\ UNCHANGED <<artifact, modalContent>>
     \/ /\ Len(jsonData) > 0
        /\ artifact' = [kind |-> "application/json", records |-> jsonData,
                         rows |-> <<>>, n |-> artifact.n + 1]
        /\ status' = [type |-> "success", message |-> "JSON download started."]
        /\ Ran("downloadJSON", "written", <<>>)
        /\ UNCHANGED modalContent
  /\ UNCHANGED <<file, detectedHeaders, jsonData, isProcessing, sections, columnMap,
                 titlePattern, clock, passes, extractions, source>>

\* downloadJSON and downloadCSV check canExport() themselves, so they are
\* taken in any state (their buttons repeat the check in disabled={!canExport()})
downloadJSON ==
  /\ \/ /\ ~canExport
        /\ showExportBlockedModal
        /\ Ran("downloadJSON", "blocked", <<>>)
        /\ UNCHANGED artifact
     \/ /\ canExport
        /\ artifact' = [kind |-> "application/json", records |-> jsonData,
                         rows |-> <<>>, n |-> artifact.n + 1]
        /\ status' = [type |-> "success", message |-> "JSON download started."]
        /\ Ran("downloadJSON", "written", <<>>)
        /\ UNCHANGED modalContent
  /\ UNCHANGED <<file, detectedHeaders, jsonData, isProcessing, sections, columnMap,
                 titlePattern, clock, passes, extractions, source>>

downloadCSV ==
  /\ \/ /\ ~canExport
        /\ showExportBlockedModal
        /\ Ran("downloadCSV", "blocked", <<>>)
        /\ UNCHANGED artifact
     \/ /\ canExport
        /\ artifact' = [kind |-> "text/csv", records |-> jsonData,
                         rows |-> CsvRows(jsonData, titlePattern, detectedHeaders, clock),
                         n |-> artifact.n + 1]
        /\ status' = [type |-> "success", message |-> "CSV download started."]
        /\ Ran("downloadCSV", "written", <<>>)
        /\ UNCHANGED modalContent
  /\ UNCHANGED <<file, detectedHeaders, jsonData, isProcessing, sections, columnMap,
                 titlePattern, clock, passes, extractions, source>>

\* the modal's close buttons: setModalContent(null)
closeModal ==
  /\ modalContent # NoModal
  /\ modalContent' = NoModal
  /\ Ran("closeModal", "", <<>>)
  /\ UNCHANGED <<file, detectedHeaders, jsonData, status, isProcessing, sections,
                 columnMap, titlePattern, clock, passes, extractions, artifact, source>>

(***************************************************************************)
(* Specification.                                                          *)
(***************************************************************************)
\* the ids renameSection is called with: those of the listed sections, and
\* "main", which names no section once it has been removed
RenameIds == SectionIds(sections) \cup {sMain}

\* Date.now() shows the millisecond of the last reading or a later one
ClockReadings == {t \in {clock, clock + 1} : t <= MaxClock}

Next ==
  \/ reset
  \/ \E f \in SessionFiles : handleFileSelection(f)
  \/ \E k \in 1..Len(extractions) : extractHeadersFromFile(k)
  \/ \E name \in NamePool, now \in ClockReadings : addSection(name, now)
  \/ \E id \in RenameIds, newName \in RenamePool : renameSection(id, newName)
  \/ \E id \in SectionIds(sections) : removeSection(id)
  \/ \E i \in 1..Len(detectedHeaders), id \in SectionIds(sections) :
       setColumnAssignment(detectedHeaders[i], id)
  \/ \E pattern \in PatternPool : setTitlePattern(pattern)
  \/ appendTokenToPattern(sPatIndex)
  \/ processCSV
  \/ \E k \in 1..Len(passes), now \in ClockReadings : processCSVResumed(k, now)
  \/ downloadJSON
  \/ downloadCSV
  \/ closeModal

Spec == Init /\ [][Next]_vars

(***************************************************************************)
(* Convert and export from any registry configuration: the session has     *)
(* selected a CSV file, its header extraction has completed, and sections, *)
(* column assignments and the title pattern have been edited; from there   *)
(* Convert, section removal and the exports run.                           *)
(***************************************************************************)
sA == <<"a">>
SectionA == [id |-> NewSectionId(sA, 0), name |-> sA, removable |-> TRUE]
MainNamedA == [MainSection EXCEPT !.name = sA]

\* section lists reached by addSection("a") at clock 0, renameSection and
\* removeSection
ConvSections ==
  { <<>>, <<MainSection>>, <<MainNamedA>>, <<MainSection, SectionA>>,
    <<MainNamedA, SectionA>>, <<SectionA>> }

sPatHeaderIndex == <<"{", "N", "}", "-", "{", "i", "n", "d", "e", "x", "}">>
sPatHeader == <<"{", "N", "}">>
ConvPatterns == {sPatTitle, <<>>, <<"x">>, sPatHeaderIndex, sPatHeader}

\* the headers extractHeadersFromFile detects in a file
DetectedIn(f) ==
  LET firstLine == FirstLine(HeaderChunk(Files[f].text))
  IN IF firstLine = <<>> THEN <<>> ELSE HeadersOfLine(firstLine)

\* the values an entry of the column map can hold beside a section's id:
\* undefined, once removeSection has emptied a list that had lost "main"
ConvMapValues(secs) ==
  SectionIds(secs) \cup (IF sMain \in SectionIds(secs) THEN {} ELSE {Undefined})

ConvMaps(f, secs) ==
  LET heads == {DetectedIn(f)[i] : i \in 1..Len(DetectedIn(f))} \ {sProto}
  IN UNION {[keys -> ConvMapValues(secs)] : keys \in SUBSET heads}

InitConv ==
  /\ file \in {f \in FilePool : IsCSV(Files[f])}
  /\ detectedHeaders = DetectedIn(file)
  /\ jsonData = <<>>
  /\ status = NoStatus
  /\ isProcessing = FALSE
  /\ modalContent = NoModal
  /\ sections \in ConvSections
  /\ columnMap \in ConvMaps(file, sections)
  /\ titlePattern \in ConvPatterns
  /\ clock = 0
  /\ passes = <<>>
  /\ extractions = <<>>
  /\ artifact = NoArtifact
  /\ source = NoSource
  /\ last = [op |-> "init", outcome |-> "", arg |-> <<>>]
  /\ steps = 0

NextConv ==
  \/ processCSV
  \/ \E k \in 1..Len(passes), now \in ClockReadings : processCSVResumed(k, now)
  \/ \E id \in SectionIds(sections) : removeSection(id)
  \/ downloadJSON
  \/ downloadCSV

ConvSpec == InitConv /\ [][NextConv]_vars

(***************************************************************************)
(* The line parser and the title resolver on their own: each step applies  *)
(* one of them to an input and records the input and the result.           *)
(***************************************************************************)
\* the characters of the lines given to the parser
LineAlphabet == {"\"", ",", "a", " "}
LinePool == UNION {[1..n -> LineAlphabet] : n \in 0..MaxLineLen}

\* header lists and rows given to the resolver
TitleRowPool ==
  { [headers |-> <<>>, values |-> <<>>],
    [headers |-> <<sTitle>>, values |-> << <<"t">> >>],
    [headers |-> <<sTitle>>, values |-> << <<>> >>],
    [headers |-> << <<"n">>, sTitle >>, values |-> << <<"v">>, <<"t", " ", "u">> >>],
    [headers |-> <<sTitle>>, values |-> <<sPatIndex>>] }

\* patterns given to the resolver: blank ones, literal ones, ones with tokens
TitlePatternPool ==
  { <<>>, <<" ">>, <<" ", "\t">>, <<"x">>, <<" ", "x">>, <<"{", "}">>,
    <<"}", "{">>, <<"{">>, sPatTitle, sPatIndex, <<"x">> \o sPatIndex,
    sPatTitle \o sPatIndex, sPatIndex \o sPatTitle }

\* a function is applied, once, to an input: the session state stays as it is
Applied(fn, result, input) ==
  /\ steps = 0
  /\ Ran(fn, result, input)
  /\ UNCHANGED <<file, detectedHeaders, jsonData, status, isProcessing, modalContent,
                 sections, columnMap, titlePattern, clock, passes, extractions,
                 artifact, source>>

ApplyParseCSVLine(line) == Applied("parseCSVLine", parseCSVLine(line), line)

ApplyBuildTitle(pattern, r, rowIndex) ==
  Applied("buildTitleFromPattern",
          buildTitleFromPattern(pattern, RowObject(r.headers, r.values), r.headers,
                                rowIndex, clock),
          [pattern |-> pattern, row |-> r, rowIndex |-> rowIndex])

NextFn ==
  \/ \E line \in LinePool : ApplyParseCSVLine(line)
  \/ \E pattern \in TitlePatternPool, r \in TitleRowPool, rowIndex \in 1..2 :
       ApplyBuildTitle(pattern, r, rowIndex)

FnSpec == Init /\ [][NextFn]_vars

(***************************************************************************)
(* The session with every file read settling: a pass suspended at          *)
(* await file.text() is resumed by the event loop once the read resolves   *)
(* or rejects.  A handler is started only while the step bound leaves room *)
(* for the suspended passes to resume after it.                            *)
(***************************************************************************)
\* n more handler runs fit before the suspended passes have all resumed
Room(n) == steps + Len(passes) + n <= MaxSteps

\* the continuation of some suspended pass runs
Resume == \E k \in 1..Len(passes), now \in ClockReadings : processCSVResumed(k, now)

NextLive ==
  \/ Room(1) /\ reset
  \/ Room(1) /\ \E f \in SessionFiles : handleFileSelection(f)
  \/ Room(1) /\ \E k \in 1..Len(extractions) : extractHeadersFromFile(k)
  \/ Room(1) /\ \E name \in NamePool, now \in ClockReadings : addSection(name, now)
  \/ Room(1) /\ \E id \in RenameIds, newName \in RenamePool : renameSection(id, newName)
  \/ Room(1) /\ \E id \in SectionIds(sections) : removeSection(id)
  \/ Room(1) /\ \E i \in 1..Len(detectedHeaders), id \in SectionIds(sections) :
                  setColumnAssignment(detectedHeaders[i], id)
  \/ Room(1) /\ \E pattern \in PatternPool : setTitlePattern(pattern)
  \/ Room(1) /\ appendTokenToPattern(sPatIndex)
  \/ Room(2) /\ processCSV
  \/ Resume
  \/ Room(1) /\ downloadJSON
  \/ Room(1) /\ downloadCSV
  \/ Room(1) /\ closeModal

LiveSpec == Init /\ [][NextLive]_vars /\ WF_vars(Resume)

(***************************************************************************)
(* Properties.                                                             *)
(***************************************************************************)
\* the last step resumed a pass, which ended in one of the outcomes
Resumed(l, outcomes) == l.op = "processCSVResumed" /\ l.outcome \in outcomes

Success == {"ok", "ok again"}
Failure == {"read rejected", "threw", "empty"}

\* the non-blank lines of the file a resumed pass read
LinesRead(l) == NonBlankLines(Files[l.arg.file].text)

\* C1: after a successful Convert no two records of the record set have
\* equal titles.
C1_TitlesUnique ==
  \A i, j \in 1..Len(jsonData) : i # j => jsonData[i].title # jsonData[j].title

\* C2: in every reachable state the section list holds at least one section.
C2_AtLeastOneSection == Len(sections) >= 1

\* C2, amended: the section list is emptied only by removeSection(id), when
\* every section of the list has that id; after reset and after a header
\* extraction that found a header line the list holds at least one section.
C2_EmptiedOnlyByRemove ==
  /\ [](last.op = "reset" \/ (last.op = "extractHeadersFromFile" /\ last.outcome = "ok")
          => Len(sections) >= 1)
  /\ [][sections # <<>> /\ sections' = <<>>
          => /\ last'.op = "removeSection"
             /\ \A i \in 1..Len(sections) : sections[i].id = last'.arg]_vars

C2_RemovedLastSection == last.op = "removeSection" /\ sections = <<>>

\* the column map after removeSection(id), as the claim C3 has it
ReassignedTo(prevMap, id, secs, nothing) ==
  [col \in DOMAIN prevMap |->
     IF prevMap[col] = id THEN (IF secs = <<>> THEN nothing ELSE secs[1].id)
     ELSE prevMap[col]]

\* C3: after removeSection(id) every column-map entry that pointed at id
\* points at the id of the new first section, in the same step; and in every
\* reachable state every entry's value is the id of a section in the list
\* (the second half, which the first implies for the entries it speaks of).
C3_EntriesPointAtSections ==
  \A col \in DOMAIN columnMap : columnMap[col] \in SectionIds(sections)

\* C3, amended: after removeSection(id) every entry that pointed at id points
\* at the id of the new first section, or holds undefined when no section is
\* left, in the same step; and in every reachable state every entry's value is
\* the id of a section in the list or undefined.
C3_ReassignedOrUndefined ==
  /\ [](\A col \in DOMAIN columnMap :
          columnMap[col] \in SectionIds(sections) \cup {Undefined})
  /\ [][last'.op = "removeSection"
          => columnMap' = ReassignedTo(columnMap, last'.arg, sections', Undefined)]_vars

C3_ReassignedToNewFirst ==
  /\ last.op = "removeSection"
  /\ last.outcome = "reassigned"
  /\ sections # <<>>
  /\ \E col \in DOMAIN columnMap : columnMap[col] = sections[1].id

\* C4: a pass that assembles data rows never does so against an empty section
\* list: a fallback section is there, so the pass succeeds and every record's
\* data has a section.
C4_RowsHaveASection ==
  Resumed(last, Success \cup {"threw"}) /\ Len(LinesRead(last)) >= 2
    => /\ last.outcome \in Success
       /\ \A i \in 1..Len(jsonData) : DOMAIN jsonData[i].data # {}

\* the title the claim C5 gives the row on line i of a pass: its generated
\* title S, followed by "-" and k - 1 when it is the k-th row generating S
SuffixedTitle(lines, i, headers, pattern, now) ==
  LET S == GeneratedTitle(lines, i, headers, pattern, now)
      k == Cardinality({j \in 2..i : GeneratedTitle(lines, j, headers, pattern, now) = S})
  IN IF k = 1 THEN S ELSE S \o <<"-">> \o Decimal(k - 1)

\* C5: in one pass the k-th row, in source order, whose generated title is S
\* gets the title S when k = 1 and S-(k-1) when k >= 2, also for empty S.
C5_KthDuplicateSuffix ==
  Resumed(last, Success)
    => LET lines == LinesRead(last)
       IN \A i \in 2..Len(lines) :
            jsonData[i - 1].title =
              SuffixedTitle(lines, i, HeadersOfLine(lines[1]), last.arg.titlePattern, clock)

\* C6: after Convert of a file with at least one non-blank line the record
\* set has one record per non-blank line but the first, whatever the section
\* list and the column map are.
C6_RecordCount ==
  Resumed(last, Success \cup {"threw"}) /\ Len(LinesRead(last)) >= 1
    => Len(jsonData) = Len(LinesRead(last)) - 1

\* C7: downloadCSV writes no file, sets an error status and a modal payload
\* whenever the record set or the section list is empty; it writes a file,
\* holding the record set, only when both are non-empty.
C7_CsvExportGate ==
  [][last'.op = "downloadCSV"
       => IF jsonData = <<>> \/ sections = <<>>
          THEN /\ artifact' = artifact
               /\ status'.type = "error"
               /\ modalContent' # NoModal
          ELSE /\ artifact'.kind = "text/csv"
               /\ artifact'.records = jsonData
               /\ Len(artifact'.rows) = Len(jsonData)
               /\ artifact'.n = artifact.n + 1]_vars

C7_BlockedWithRecords ==
  /\ last.op = "downloadCSV"
  /\ last.outcome = "blocked"
  /\ jsonData # <<>>
  /\ sections = <<>>
  /\ artifact = NoArtifact

\* C8: a pass that fails (the read rejects, row processing throws, or the file
\* has no non-blank line) leaves the record set as it was: from its start to
\* its end it changes only the status and the busy flag.
C8_FailedPassKeepsRecords ==
  /\ [][last'.op = "processCSV" \/ Resumed(last', Failure)
          => UNCHANGED <<jsonData, file, detectedHeaders, modalContent, sections,
                         columnMap, titlePattern, artifact>>]_vars
  /\ [][Resumed(last', Failure) => ~isProcessing' /\ status'.type = "error"]_vars

C8_ThrewOverRecords == Resumed(last, {"threw"}) /\ jsonData # <<>>

\* C9: a pass that succeeds with the file, section list, column map and title
\* pattern of the pass that produced the record set, the pattern without a
\* {timestamp} token, produces that record set again.
C9_ConvertIdempotent ==
  [][(/\ Resumed(last', Success)
      /\ source # NoSource
      /\ last'.arg = source
      /\ ~ReadsClock(source.titlePattern))
        => jsonData' = jsonData]_vars

C9_ConvertedTwice ==
  /\ last.op = "processCSVResumed"
  /\ last.outcome = "ok again"
  /\ Len(jsonData) >= 2

\* C10: no step of Convert, on its success path or on a failure path, changes
\* the section list, the column map or the title pattern.
C10_ConvertFrame ==
  [][last'.op \in {"processCSV", "processCSVResumed"}
       => UNCHANGED <<sections, columnMap, titlePattern>>]_vars

C10_ConvertedWithAssignments ==
  /\ Resumed(last, Success)
  /\ columnMap # EmptyMap
  /\ Len(sections) = 2
  /\ titlePattern # sPatTitle
  /\ jsonData # <<>>

\* C11: renameSection(id, newName) changes only the name of the sections with
\* that id, to newName: every section keeps its id, removable flag and
\* position, the list keeps its length, the column map and every other
\* state variable are unchanged; when no section has that id nothing changes.
C11_RenameFrame ==
  [][last'.op = "renameSection"
       => /\ Len(sections') = Len(sections)
          /\ \A i \in 1..Len(sections) :
                /\ sections'[i].id = sections[i].id
                /\ sections'[i].removable = sections[i].removable
                /\ sections'[i].name = IF sections[i].id = last'.arg.id
                                       THEN last'.arg.newName ELSE sections[i].name
          /\ (last'.arg.id \notin SectionIds(sections) => sections' = sections)
          /\ UNCHANGED <<columnMap, file, detectedHeaders, jsonData, status,
                         isProcessing, modalContent, titlePattern, passes,
                         extractions, artifact>>]_vars

C11_RenamedOneOfTwo ==
  /\ last.op = "renameSection"
  /\ Len(sections) = 2
  /\ columnMap # EmptyMap
  /\ \E i, j \in 1..2 : /\ sections[i].id = last.arg.id
                         /\ sections[i].name = last.arg.newName
                         /\ sections[j].id # last.arg.id
                         /\ sections[j].name # last.arg.newName

\* C12: in every reachable state the ids of the sections in the list are
\* pairwise distinct and non-empty, whatever names are added at whatever
\* clock readings.
C12_SectionIdsDistinct ==
  /\ \A i \in 1..Len(sections) : sections[i].id # <<>>
  /\ \A i, j \in 1..Len(sections) : i # j => sections[i].id # sections[j].id

\* the field of line i under header h, as C13 and C14 have it: the field at
\* the position of h in the header line (its last position when h occurs
\* more than once), the empty string when the line has no field there or the
\* header line has no header h
FieldUnder(lines, i, h) ==
  LET headers == HeadersOfLine(lines[1])
      fields == parseCSVLine(lines[i])
      at == {p \in 1..Len(headers) : headers[p] = h}
  IN IF at = {} \/ MaxOf(at \cup {0}) > Len(fields) THEN <<>>
     ELSE fields[MaxOf(at)]

\* C13: no sub-object of a record's data has the key "title" or "content",
\* and the record's content is the row's field under the content header, the
\* empty string when the file has no such header.
C13_BaseFieldsKeptOut ==
  Resumed(last, Success)
    => \A k \in 1..Len(jsonData) :
         /\ \A name \in DOMAIN jsonData[k].data :
               DOMAIN jsonData[k].data[name] \cap {sTitle, sContent} = {}
         /\ jsonData[k].content = FieldUnder(LinesRead(last), k + 1, sContent)

C13_ContentBesideData ==
  /\ Resumed(last, Success)
  /\ last.arg.file = "notitle"
  /\ jsonData[1].content = <<"c">>
  /\ jsonData[2].content = <<>>
  /\ \E name \in DOMAIN jsonData[1].data : jsonData[1].data[name] # <<>>

\* C14: every data row is forced to header width, so each record carries
\* exactly one value per distinct header: for every header but title and
\* content exactly one sub-object of data has it as a key, with the row's
\* field under that header, the empty string where the row is short.
C14_OneValuePerHeader ==
  Resumed(last, Success)
    => LET lines == LinesRead(last)
           headers == HeadersOfLine(lines[1])
       IN \A k \in 1..Len(jsonData) :
            \A p \in 1..Len(headers) :
              headers[p] \notin {sTitle, sContent}
                => /\ Cardinality({name \in DOMAIN jsonData[k].data :
                                     headers[p] \in DOMAIN jsonData[k].data[name]}) = 1
                   /\ \A name \in DOMAIN jsonData[k].data :
                         headers[p] \in DOMAIN jsonData[k].data[name]
                           => jsonData[k].data[name][headers[p]]
                                = FieldUnder(lines, k + 1, headers[p])

\* the handler runs that edit the section list, the column map or the pattern
Edited(l) ==
  \/ l.op \in {"renameSection", "removeSection", "setColumnAssignment",
                "setTitlePattern", "appendTokenToPattern"}
  \/ l.op = "addSection" /\ l.outcome = "added"

\* C15: while a pass is in progress no section is added, renamed or removed,
\* no column assignment changes and the title pattern is not edited (an edit
\* leaves the busy flag as it is, so the flag was set when the edit ran).
C15_NoEditDuringPass == ~(isProcessing /\ passes # <<>> /\ Edited(last))

\* C16: at most one pass is in flight: the busy flag is set exactly while a
\* pass is suspended at its file read, and Convert starts a pass only when
\* none is in flight.
C16_OnePassInFlight ==
  /\ [](Len(passes) <= 1 /\ (isProcessing <=> passes # <<>>))
  /\ [][last'.op = "processCSV" /\ last'.outcome = "reading"
          => passes = <<>> /\ Len(passes') = 1]_vars

C16_SecondPassAfterFirst ==
  /\ last.op = "processCSV"
  /\ last.outcome = "reading"
  /\ Len(passes) = 1
  /\ jsonData # <<>>

\* the parser as C17 has it: a quote followed by a quote is an escaped quote
\* only inside quotes, and every other quote toggles the flag
RECURSIVE ParseLoopAsClaimed(_, _, _)
ParseLoopAsClaimed(line, i, st) ==
  IF i > Len(line) THEN st
  ELSE LET ch == line[i]
           nextIsQuote == i + 1 <= Len(line) /\ line[i + 1] = "\""
       IN IF ch = "\"" /\ nextIsQuote /\ st.inQuotes
          THEN ParseLoopAsClaimed(line, i + 2, [st EXCEPT !.cur = @ \o <<"\"">>])
          ELSE IF ch = "\""
          THEN ParseLoopAsClaimed(line, i + 1, [st EXCEPT !.inQuotes = ~@])
          ELSE IF ch = "," /\ ~st.inQuotes
          THEN ParseLoopAsClaimed(line, i + 1,
                                  [st EXCEPT !.result = Append(@, st.cur), !.cur = <<>>])
          ELSE ParseLoopAsClaimed(line, i + 1, [st EXCEPT !.cur = @ \o <<ch>>])

ParsedAsClaimed(line) ==
  LET st == ParseLoopAsClaimed(line, 1,
                               [cur |-> <<>>, inQuotes |-> FALSE, result |-> <<>>])
      result == Append(st.result, st.cur)
  IN [i \in 1..Len(result) |-> Trim(result[i])]

\* C17: the line parser takes a quote followed by a quote for an escaped
\* quote only while inside quotes; outside quotes every quote toggles the
\* flag and emits nothing, so an empty quoted field parses to the empty
\* string.
C17_EscapeOnlyInsideQuotes ==
  last.op = "parseCSVLine" => last.outcome = ParsedAsClaimed(last.arg)

\* the pattern holds a token: "{", one or more characters other than "}", "}"
HasToken(pat) ==
  \E i, j \in 1..Len(pat) :
    /\ j >= i + 2
    /\ pat[i] = "{"
    /\ pat[j] = "}"
    /\ \A m \in (i + 1)..(j - 1) : pat[m] # "}"

\* C18: the resolver returns the row's title field, the empty string if the
\* row has none, when the pattern is empty or only whitespace, and returns
\* the pattern unchanged, for every row, when the pattern holds no token.
C18_BlankAndLiteralPatterns ==
  last.op = "buildTitleFromPattern"
    => LET pattern == last.arg.pattern
           r == last.arg.row
           at == {p \in 1..Len(r.headers) : r.headers[p] = sTitle}
       IN /\ (\A p \in 1..Len(pattern) : IsSpace(pattern[p]))
               => last.outcome = IF at = {} THEN <<>> ELSE r.values[MaxOf(at)]
          /\ (\E p \in 1..Len(pattern) : ~IsSpace(pattern[p])) /\ ~HasToken(pattern)
               => last.outcome = pattern

C18_BlankPatternGaveTitle ==
  /\ last.op = "buildTitleFromPattern"
  /\ last.arg.pattern = <<" ", "\t">>
  /\ last.outcome = <<"t", " ", "u">>

\* the last step wrote a CSV file
WroteCSV(l) == l.op = "downloadCSV" /\ l.outcome = "written"

\* C19: under the pattern "{N}-{index}" the record of the k-th data row (the
\* k-th non-blank line after the header line) has the title made of the
\* row's field under n, "-" and the decimal k; and the CSV export, applying
\* the pattern again to the k-th record, ends its route_url with "-" and k.
C19_IndexIsRowNumber ==
  /\ Resumed(last, Success) /\ last.arg.titlePattern = sPatHeaderIndex
       => \A k \in 1..Len(jsonData) :
            jsonData[k].title =
              FieldUnder(LinesRead(last), k + 1, <<"n">>) \o <<"-">> \o Decimal(k)
  /\ WroteCSV(last) /\ titlePattern = sPatHeaderIndex
       => \A k \in 1..Len(jsonData) :
            EndsWith(artifact.rows[k].route_url, <<"-">> \o Decimal(k))

C19_ExportedSecondRow ==
  /\ WroteCSV(last)
  /\ titlePattern = sPatHeaderIndex
  /\ source.file = "names"
  /\ jsonData[2].title = <<"y", "-", "2">>
  /\ artifact.rows[2].route_url = <<"/", "/", "y", "-", "2">>

\* C20: in the CSV export the route_url of each record is "/", its content,
\* "/" and a slug: the slug of the title pattern applied again to the flat
\* row rebuilt from the record, with the record's position as row index, and
\* the slug of the record's stored title when that result is empty or only
\* whitespace.
C20_RouteUrl ==
  WroteCSV(last)
    => /\ Len(artifact.rows) = Len(jsonData)
       /\ \A k \in 1..Len(jsonData) :
            LET item == jsonData[k]
                again == buildTitleFromPattern(titlePattern, reconstructRowFromItem(item),
                                               detectedHeaders, k, clock)
                base == IF \A p \in 1..Len(again) : IsSpace(again[p])
                        THEN item.title ELSE again
            IN artifact.rows[k].route_url
                 = <<"/">> \o item.content \o <<"/">> \o slugify(base)

C20_RouteFromStoredTitle ==
  /\ WroteCSV(last)
  /\ titlePattern = sPatHeader
  /\ source.file = "titles"
  /\ jsonData[2].title = <<"-", "1">>
  /\ artifact.rows[2].route_url = <<"/", "/", "-", "1">>

\* the names of a section list are pairwise distinct
DistinctNames(secs) ==
  \A i, j \in 1..Len(secs) : i # j => secs[i].name # secs[j].name

\* the position of the section the claim C21 routes header h to: the first
\* section with the id the column map holds for h, the first section of the
\* list when the map has no entry for h or the entry names no listed id
RoutedTo(h, secs, colMap) ==
  LET hits == IF h \in DOMAIN colMap
              THEN {i \in 1..Len(secs) : secs[i].id = colMap[h]} ELSE {}
  IN IF hits = {} THEN 1 ELSE MinOf(hits)

\* C21: for every record of a Convert with a non-empty section list of
\* pairwise distinct names, the keys of data are the section names, and every
\* header but title and content is a key of exactly one sub-object, that of
\* the section the column map assigns it to (the first section when it has no
\* entry or the entry names no listed id), with the row's value for it.
C21_HeadersRoutedOnce ==
  (/\ Resumed(last, Success)
   /\ last.arg.sections # <<>>
   /\ DistinctNames(last.arg.sections))
    => LET lines == LinesRead(last)
           headers == HeadersOfLine(lines[1])
           secs == last.arg.sections
       IN \A k \in 1..Len(jsonData) :
            /\ DOMAIN jsonData[k].data = {secs[i].name : i \in 1..Len(secs)}
            /\ \A p \in 1..Len(headers) :
                 headers[p] \notin {sTitle, sContent}
                   => LET h == headers[p]
                          to == RoutedTo(h, secs, last.arg.columnMap)
                      IN /\ \A i \in 1..Len(secs) :
                               h \in DOMAIN jsonData[k].data[secs[i].name] <=> i = to
                         /\ h \in DOMAIN jsonData[k].data[secs[to].name]
                              => jsonData[k].data[secs[to].name][h]
                                   = FieldUnder(lines, k + 1, h)

\* C22: when two or more sections share a name at Convert time, each
\* record's data has one sub-object under that name, and it holds every
\* column routed to any of those sections, each with the row's value for it
\* (for a header that occurs more than once, the value of its last column).
C22_SameNameMerged ==
  (Resumed(last, Success) /\ ~DistinctNames(last.arg.sections))
    => LET lines == LinesRead(last)
           headers == HeadersOfLine(lines[1])
           secs == last.arg.sections
           shared == {secs[i].name : i \in {x \in 1..Len(secs) :
                                              \E y \in 1..Len(secs) :
                                                y # x /\ secs[y].name = secs[x].name}}
       IN \A k \in 1..Len(jsonData) :
            /\ DOMAIN jsonData[k].data = {secs[i].name : i \in 1..Len(secs)}
            /\ \A name \in shared :
                 \A p \in 1..Len(headers) :
                   (/\ headers[p] \notin {sTitle, sContent}
                    /\ secs[RoutedTo(headers[p], secs, last.arg.columnMap)].name = name)
                     => /\ headers[p] \in DOMAIN jsonData[k].data[name]
                        /\ headers[p] \in DOMAIN jsonData[k].data[name]
                             => jsonData[k].data[name][headers[p]]
                                  = FieldUnder(lines, k + 1, headers[p])

\* C23: every pass Convert starts ends, on the success path, the empty-file
\* path and the exception path, with the busy flag false, once its file read
\* has resolved or rejected; and the flag is never set while no pass is in
\* flight.
C23_BusyFlagCleared ==
  /\ [](passes = <<>> => ~isProcessing)
  /\ (passes # <<>> ~> (passes = <<>> /\ ~isProcessing))
  /\ [][Resumed(last', Success \cup Failure) => ~isProcessing']_vars

C23_EmptyPassEnded ==
  /\ Resumed(last, {"empty"})
  /\ passes = <<>>
  /\ ~isProcessing
  /\ file # NoFile

\* C24: a pass builds its records from the file, the section list, the column
\* map and the title pattern of the moment Convert was invoked: Convert puts
\* them on the list of suspended passes, no edit made while the read is
\* pending changes them there, and the records a pass writes are those of the
\* text of that file converted with that section list, map and pattern.
C24_PassUsesCapturedValues ==
  /\ [][last'.op = "processCSV" /\ last'.outcome = "reading"
          => passes' = Append(passes, [file |-> file, sections |-> sections,
                                       columnMap |-> columnMap,
                                       titlePattern |-> titlePattern])]_vars
  /\ [][last'.op \notin {"processCSV", "processCSVResumed"} => passes' = passes]_vars
  /\ [][Resumed(last', Success)
          => \E k \in 1..Len(passes) :
               /\ passes' = RemoveAt(passes, k)
               /\ last'.arg = passes[k]
               /\ jsonData' = ConvertText(Files[passes[k].file].text, passes[k].sections,
                                          passes[k].columnMap, passes[k].titlePattern,
                                          clock').transformed]_vars

C24_EditedWhileReading ==
  /\ Resumed(last, Success)
  /\ last.arg.sections # sections
  /\ last.arg.titlePattern # titlePattern
  /\ jsonData # <<>>
  /\ \A k \in 1..Len(jsonData) :
       DOMAIN jsonData[k].data = {last.arg.sections[i].name : i \in 1..Len(last.arg.sections)}

\* C25: whenever no file read is pending (no header extraction and no pass
\* is suspended) the detected header list is the lower-cased header list of
\* the selected file, and is empty when no file is selected.
C25_HeadersOfSelectedFile ==
  passes = <<>> /\ extractions = <<>>
    => detectedHeaders = IF file = NoFile THEN <<>> ELSE DetectedIn(file)

\* C26: after reset, until a file is selected again, the record set and the
\* detected header list stay empty and no file is selected; a pass or a
\* header extraction that was in flight at the reset does not fill them when
\* it completes.  (No file is selected only at the start and from a reset to
\* the next selection.)
C26_EmptyUntilNextSelection ==
  file = NoFile => jsonData = <<>> /\ detectedHeaders = <<>>

\* C27: when the header extraction of an accepted file selection completes
\* (its read resolved), the column map is empty, also when the file has no
\* non-blank line.
C27_SelectionClearsColumnMap ==
  [][last'.op = "extractHeadersFromFile" /\ last'.outcome \in {"ok", "empty"}
       => columnMap' = EmptyMap]_vars

\* the title as C28 has it: the pattern, each token occurrence (the matches
\* of /\{([^\}]+)\}/g, left to right) replaced by the trimmed value of its
\* token, the substituted text left as it is
RECURSIVE SubstitutedOnce(_, _, _, _, _)
SubstitutedOnce(pat, rowObject, headersArray, rowIndex, now) ==
  LET open == IndexOfFrom(pat, <<"{">>, 1)
      close == IF open = 0 THEN 0 ELSE IndexOfFrom(pat, <<"}">>, open + 1)
  IN IF open = 0 \/ close = 0 THEN pat
     ELSE IF close = open + 1
     THEN SubSeq(pat, 1, open)
            \o SubstitutedOnce(SliceFrom(pat, open), rowObject, headersArray, rowIndex, now)
     ELSE SubSeq(pat, 1, open - 1)
            \o Trim(StringOf(Nullish(resolveToken(SubSeq(pat, open + 1, close - 1),
                                                  rowObject, headersArray, rowIndex, now),
                                     <<>>)))
            \o SubstitutedOnce(SliceFrom(pat, close), rowObject, headersArray, rowIndex, now)

\* C28: for every pattern that holds a token and every row, the resolved
\* title is the pattern with each token occurrence replaced by the trimmed
\* value of that token; text put in for a token is not itself taken for a
\* token, also when a field holds the text of a token that occurs later in
\* the pattern.
C28_SubstitutedTextNotReinterpreted ==
  last.op = "buildTitleFromPattern" /\ HasToken(last.arg.pattern)
    => last.outcome
         = SubstitutedOnce(last.arg.pattern,
                           RowObject(last.arg.row.headers, last.arg.row.values),
                           last.arg.row.headers, last.arg.rowIndex, clock)

\* C29: when the CSV export runs with the title pattern, the header list and
\* the section list of the pass that produced the record set, the pattern
\* without a {timestamp} token, the pattern applied again to the flat row
\* rebuilt from the k-th record, with row index k, gives the title that pass
\* generated for the k-th data row before any duplicate suffix.
C29_ReevaluatedTitleIsGenerated ==
  (/\ WroteCSV(last)
   /\ source # NoSource
   /\ titlePattern = source.titlePattern
   /\ sections = source.sections
   /\ detectedHeaders = HeadersOfLine(NonBlankLines(Files[source.file].text)[1])
   /\ ~ReadsClock(titlePattern))
    => \A k \in 1..Len(jsonData) :
         buildTitleFromPattern(titlePattern, reconstructRowFromItem(jsonData[k]),
                               detectedHeaders, k, clock)
           = GeneratedTitle(NonBlankLines(Files[source.file].text), k + 1,
                            detectedHeaders, titlePattern, clock)

\* C30: downloadJSON writes a file, holding the record set, exactly when the
\* record set and the section list are both non-empty; otherwise, and so
\* with records and no section, it writes no file and sets the error status
\* "No sections defined." and the modal payload, as downloadCSV does.
C30_JsonExportGate ==
  [][last'.op = "downloadJSON"
       => IF jsonData # <<>> /\ sections # <<>>
          THEN /\ artifact' = [kind |-> "application/json", records |-> jsonData,
                               rows |-> <<>>, n |-> artifact.n + 1]
               /\ status'.type = "success"
               /\ modalContent' = modalContent
          ELSE /\ artifact' = artifact
               /\ status' = [type |-> "error", message |-> "No sections defined."]
               /\ modalContent'.title = "Export Error"]_vars

C30_JsonBlockedWithRecords ==
  /\ last.op = "downloadJSON"
  /\ last.outcome = "blocked"
  /\ jsonData # <<>>
  /\ sections = <<>>
  /\ artifact = NoArtifact
  /\ status.message = "No sections defined."
  /\ modalContent # NoModal

====
